---- MODULE Spec2Model ----
(***************************************************************************)
(* Session lifecycle and score aggregation of the interview evaluation     *)
(* service (src/ai-interview-ai/main.py).                                  *)
(*                                                                         *)
(* Fixed-point units used for the service's floats:                        *)
(*   overall_marks, total_marks   thousandths of a mark  (MarkScale)       *)
(*   average_score, percentage    hundredths             (two decimals)    *)
(*   skill scores                 hundredths of a point  (SkillScale)      *)
(*   skill averages               tenths                 (one decimal)     *)
(* Optional values (a missing dict key, None) are sequences of length 0/1. *)
(***************************************************************************)
EXTENDS Integers, Sequences, FiniteSets, TLC

VARIABLES
    store,       \* saved_sessions/: file key -> persisted session record
    temp_files,  \* temp_eval/: the set of files that exist
    ncalls,      \* evaluate calls that got past validation (names their uuids)
    pc,          \* per request slot: where its evaluate coroutine is suspended
    args,        \* per request slot: session_id and index of the call
    session,     \* per request slot: the session dict load_session returned
    img_path,    \* per request slot: img_path local
    returned     \* what the handler step just taken returned or raised

vars == <<store, temp_files, ncalls, pc, args, session, img_path, returned>>

----------------------------------------------------------------------------
(* Bounds of the model *)

MaxSessions == 1
MaxCalls == 2
MaxSlots == 2

Slots == 1..MaxSlots

(* Program constants *)

MIN_AUDIO_BYTES == 100
MAX_MARK == 10
STRENGTH_MIN == 65
WEAKNESS_MAX == 50

(* Scales of the fixed-point units *)

MarkScale == 10 * 10 * 10

SkillScale == 10 * 10

----------------------------------------------------------------------------
(* Generic helpers *)

Range(s) == {s[i] : i \in 1..Len(s)}

Some(x) == <<x>>

Nothing == <<>>

\* dict.get(key, default) on a record
Get(d, key, default) == IF key \in DOMAIN d THEN d[key] ELSE default

RECURSIVE Concat(_)
Concat(ss) == IF ss = <<>> THEN <<>> ELSE Head(ss) \o Concat(Tail(ss))

RECURSIVE SumSeq(_)
SumSeq(s) == IF s = <<>> THEN 0 ELSE Head(s) + SumSeq(Tail(s))

\* round() of the exact rational a/b to an integer, ties to even
RoundDiv(a, b) ==
    LET q == a \div b
        r2 == 2 * (a % b)
    IN IF r2 > b \/ (r2 = b /\ q % 2 = 1) THEN q + 1 ELSE q

----------------------------------------------------------------------------
(* The question bank (question_bank.QUESTION_BANK): domain key -> ordered   *)
(* mapping round name -> list of question records.  A domain key is the    *)
(* sequence of its characters; an ordered dict is a sequence of            *)
(* <<key, value>> pairs.  Optional question fields are absent fields.      *)

KeyBackend == <<"b", "a", "c", "k", "e", "n", "d">>

KeyMl == <<"m", "l">>

QB1 == [q |-> "b1", category |-> "behavioral", difficulty |-> "easy",
        weight |-> 2, model_answer |-> "ref-b1"]

QB2 == [q |-> "b2", model_answer |-> "ref-b2"]

QM1 == [q |-> "m1", category |-> "technical", weight |-> 3]

QM2 == [q |-> "m2", difficulty |-> "hard", model_answer |-> "ref-m2"]

QUESTION_BANK ==
    (KeyBackend :> << <<"round_1_background", <<QB1>> >>,
                      <<"round_2_domain", <<QB2>> >>,
                      <<"round_3_project", <<>> >> >>)
    @@ (KeyMl :> << <<"round_1_background", <<QM1, QM2>> >> >>)

\* key in ordered_dict
HasKey(od, key) == \E i \in 1..Len(od) : od[i][1] = key

\* ordered_dict[key]
Lookup(od, key) == od[CHOOSE i \in 1..Len(od) : od[i][1] = key][2]

----------------------------------------------------------------------------
(* start: lines 157-210 *)

\* str.lower() on the characters the inputs use
Lower(c) ==
    CASE c = "B" -> "b"
      [] c = "E" -> "e"
      [] c = "M" -> "m"
      [] c = "L" -> "l"
      [] OTHER -> c

\* str.replace(ch, "")
RECURSIVE Remove(_, _)
Remove(str, ch) ==
    IF str = <<>> THEN <<>>
    ELSE IF Head(str) = ch THEN Remove(Tail(str), ch)
    ELSE <<Head(str)>> \o Remove(Tail(str), ch)

\* req.domain.lower().replace(" ", "").replace("-", ""), then the fallback
domain_key(domain) ==
    LET lowered == [i \in 1..Len(domain) |-> Lower(domain[i])]
        key == Remove(Remove(lowered, " "), "-")
    IN IF key \in DOMAIN QUESTION_BANK THEN key ELSE KeyBackend

level_map ==
    << <<"easy", "round_1_background">>,
       <<"medium", "round_2_domain">>,
       <<"hard", "round_3_project">> >>

\* every round's questions, in the bank's order
AllRounds(raw_rounds) ==
    Concat([i \in 1..Len(raw_rounds) |-> raw_rounds[i][2]])

\* level is a string; "" stands for a falsy level (None or empty)
flattened_questions(raw_rounds, level) ==
    IF level # "" /\ level # "all"
    THEN IF HasKey(level_map, level) /\ HasKey(raw_rounds, Lookup(level_map, level))
         THEN Lookup(raw_rounds, Lookup(level_map, level))
         ELSE AllRounds(raw_rounds)
    ELSE AllRounds(raw_rounds)

\* the client-safe view of one question
safe_question(q) ==
    [q |-> q.q,
     category |-> Get(q, "category", "technical"),
     difficulty |-> Get(q, "difficulty", "medium"),
     weight |-> Get(q, "weight", 1)]

\* A session id as the client sends it: the uuid the service issued, possibly
\* wrapped in whitespace.  str.strip() removes the wrapping.
SessionId(u, padded) == [uuid |-> u, pad |-> padded]

Strip(session_id) == [session_id EXCEPT !.pad = FALSE]

\* the file of a session id, as save_session names it (no strip)
SavePath(session_id) == session_id

\* the file of a session id, as load_session names it
LoadPath(session_id) == Strip(session_id)

\* uuid.uuid4() for a session: an id never issued before
IssuedIds == {k.uuid : k \in DOMAIN store}

NoReturn == [op |-> "none"]

Start(domain, level) ==
    /\ returned = NoReturn
    /\ Cardinality(IssuedIds) < MaxSessions
    /\ LET session_id == SessionId(Cardinality(IssuedIds) + 1, FALSE)
           key == domain_key(domain)
           questions == flattened_questions(QUESTION_BANK[key], level)
           session_data ==
               [session_id |-> session_id,
                domain |-> key,
                level |-> IF level # "" THEN level ELSE "all",
                questions |-> questions,
                scores |-> <<>>,
                total_questions |-> Len(questions),
                final_result |-> Nothing]
       IN /\ store' = (SavePath(session_id) :> session_data) @@ store
          /\ returned' =
               [op |-> "start",
                request |-> [domain |-> domain, level |-> level],
                session_id |-> session_id,
                domain |-> key,
                level |-> level,
                total_questions |-> Len(questions),
                questions |-> [i \in 1..Len(questions) |-> safe_question(questions[i])]]
    /\ UNCHANGED <<temp_files, ncalls, pc, args, session, img_path>>

----------------------------------------------------------------------------
(* The external evaluator (evaluator.evaluate_multimodal): an opaque call  *)
(* that raises or returns one of these outputs.  A skill the evaluator     *)
(* leaves out of skill_scores is an absent field.                          *)

Skills == <<"technical", "communication", "problem_solving", "confidence">>

EvalOutputs ==
    { [overall_marks |-> 9000, emotion_detected |-> "happy",
       skill_scores |-> [technical |-> 6500, communication |-> 6500,
                         problem_solving |-> 6500, confidence |-> 6500]],
      [overall_marks |-> 8999, emotion_detected |-> "neutral",
       skill_scores |-> [technical |-> 6499, communication |-> 4999,
                         problem_solving |-> 5000]],
      [overall_marks |-> 5000, emotion_detected |-> "neutral",
       skill_scores |-> [technical |-> 10000, communication |-> 0,
                         problem_solving |-> 6494, confidence |-> 4994]],
      [overall_marks |-> 4999, emotion_detected |-> "sad",
       skill_scores |-> [technical |-> 6495, communication |-> 4995,
                         problem_solving |-> 3000, confidence |-> 7000]] }

----------------------------------------------------------------------------
(* Uploaded audio: its byte length and what the converter makes of it.     *)
(*   wav          RIFF....WAVE header: written verbatim (lines 58-63)      *)
(*   decodable    pydub decodes and exports it (lines 66-78)               *)
(*   undecodable  AudioSegment.from_file raises (line 67)                  *)
(*   export_fails audio.export raises after opening its output (line 75)   *)

AudioKinds == {"wav", "decodable", "undecodable", "export_fails"}

AudioLens == {0, MIN_AUDIO_BYTES - 1, MIN_AUDIO_BYTES}

\* uuid4-named temporary files: the call that made them and the naming site
TempFile(call, site) == <<call, site>>

\* save_uploaded_audio_as_wav: the path it returns and the files it creates
save_uploaded_audio_as_wav(kind, call) ==
    CASE kind = "wav" ->
           [path |-> TempFile(call, "wav"), created |-> {TempFile(call, "wav")}]
      [] kind = "decodable" ->
           [path |-> TempFile(call, "wav"), created |-> {TempFile(call, "wav")}]
      [] kind = "undecodable" ->
           [path |-> TempFile(call, "fallback"),
            created |-> {TempFile(call, "fallback")}]
      [] kind = "export_fails" ->
           [path |-> TempFile(call, "fallback"),
            created |-> {TempFile(call, "wav"), TempFile(call, "fallback")}]

----------------------------------------------------------------------------
(* evaluate: its conditions, the Result and the aggregation (lines 228-348) *)

\* not audio_bytes or len(audio_bytes) < 100
InvalidAudio(len) == len = 0 \/ len < MIN_AUDIO_BYTES

\* the range test with its upper bound included
InvalidIndex_UpperIncluded(index, questions) == index < 0 \/ index > Len(questions)

\* index < 0 or index >= len(session["questions"])
InvalidIndex(index, questions) == index < 0 \/ index >= Len(questions)

\* the terminal test off by one
is_finished_OffByOne(index, questions) == index >= Len(questions)

\* index >= len(session["questions"]) - 1
is_finished(index, questions) == index >= Len(questions) - 1

\* the Result of one answer (lines 267-284); the evaluator's free-form
\* passthrough fields (transcript, feedback, breakdown, ...) are left out
build_result(q_data, index, eval_res) ==
    [question |-> q_data.q,
     question_index |-> index,
     category |-> Get(q_data, "category", "technical"),
     difficulty |-> Get(q_data, "difficulty", "medium"),
     weight |-> Get(q_data, "weight", 1),
     overall_marks |-> eval_res.overall_marks,
     emotion |-> eval_res.emotion_detected,
     skill_scores |-> eval_res.skill_scores]

\* sum(float(s["overall_marks"]) for s in session["scores"])
total_marks(scores) == SumSeq([i \in 1..Len(scores) |-> scores[i].overall_marks])

\* round(total_marks / total_questions, 2), in hundredths
average_score(total, total_questions) ==
    RoundDiv(total * 100, total_questions * MarkScale)

\* round((total_marks / max_possible) * 100, 2), in hundredths
percentage(total, max_possible) ==
    RoundDiv(total * 100 * 100, max_possible * MarkScale)

\* round(sum of the skill over the scores / total_questions, 1), in tenths
avg_skill(scores, skill, total_questions) ==
    RoundDiv(SumSeq([i \in 1..Len(scores) |-> Get(scores[i].skill_scores, skill, 0)]) * 10,
             total_questions * SkillScale)

\* emotions.count(e)
Count(emotions, e) == Cardinality({i \in 1..Len(emotions) : emotions[i] = e})

\* max(set(emotions), key=emotions.count): the first label of maximal count in
\* the iteration order of a set of strings, which the language leaves open
DominantCandidates(emotions) ==
    IF emotions = <<>> THEN {"neutral"}
    ELSE {e \in Range(emotions) :
             \A f \in Range(emotions) : Count(emotions, f) <= Count(emotions, e)}

\* the bands with their lower bound excluded
grade_LowerBoundExcluded(pct) ==
    IF pct > 90 * 100 THEN "A+"
    ELSE IF pct > 80 * 100 THEN "A"
    ELSE IF pct > 70 * 100 THEN "B+"
    ELSE IF pct > 60 * 100 THEN "B"
    ELSE IF pct > 50 * 100 THEN "C"
    ELSE IF pct > 40 * 100 THEN "D"
    ELSE "F"

\* the grade bands, top-down (percentage in hundredths)
grade(pct) ==
    IF pct >= 90 * 100 THEN "A+"
    ELSE IF pct >= 80 * 100 THEN "A"
    ELSE IF pct >= 70 * 100 THEN "B+"
    ELSE IF pct >= 60 * 100 THEN "B"
    ELSE IF pct >= 50 * 100 THEN "C"
    ELSE IF pct >= 40 * 100 THEN "D"
    ELSE "F"

\* the strength test with its bound excluded
strengths_BoundExcluded(avg_skills) ==
    SelectSeq(Skills, LAMBDA k : avg_skills[k] > STRENGTH_MIN * 10)

\* [k for k, v in avg_skills.items() if v >= 65], on the rounded averages
strengths(avg_skills) ==
    SelectSeq(Skills, LAMBDA k : avg_skills[k] >= STRENGTH_MIN * 10)

\* [k for k, v in avg_skills.items() if v < 50], on the rounded averages
weaknesses(avg_skills) ==
    SelectSeq(Skills, LAMBDA k : avg_skills[k] < WEAKNESS_MAX * 10)

final_summary(scores, questions, dominant_emotion) ==
    LET total == total_marks(scores)
        total_questions == Len(questions)
        max_possible == total_questions * MAX_MARK
        avg_skills == [k \in Range(Skills) |->
                          avg_skill(scores, k, total_questions)]
    IN [total_marks |-> RoundDiv(total * 100, MarkScale),
        average_score |-> average_score(total, total_questions),
        percentage |-> percentage(total, max_possible),
        total_questions |-> total_questions,
        max_possible |-> max_possible,
        skill_averages |-> avg_skills,
        strengths |-> strengths(avg_skills),
        weaknesses |-> weaknesses(avg_skills),
        dominant_emotion |-> dominant_emotion,
        grade |-> grade(percentage(total, max_possible))]

----------------------------------------------------------------------------
(* evaluate: lines 216-381.  The coroutine runs without interruption       *)
(* between its awaits (image.read() at line 234, audio.read() at line      *)
(* 240); other requests run while it is suspended there.                   *)

Idle == [session_id |-> SessionId(0, FALSE), index |-> 0, call |-> 0]

\* what an evaluate call returned or raised, with what it did on the way
Outcome(session_id, index, audio_len, status, detail, created, evaluated, body) ==
    [op |-> "evaluate", session_id |-> session_id, index |-> index,
     audio_len |-> audio_len, status |-> status, detail |-> detail,
     created |-> created, evaluated |-> evaluated, body |-> body]

NoBody == [finished |-> FALSE, current_score |-> Nothing, final_result |-> Nothing,
           all_scores |-> <<>>, progress |-> Nothing]

\* the slot's coroutine is over: its locals are gone
Finish(r) ==
    /\ pc' = [pc EXCEPT ![r] = "idle"]
    /\ args' = [args EXCEPT ![r] = Idle]
    /\ session' = [session EXCEPT ![r] = Nothing]
    /\ img_path' = [img_path EXCEPT ![r] = Nothing]

\* lines 224-226: load_session found no file
EvaluateNotFound(session_id, index) ==
    /\ returned = NoReturn
    /\ LoadPath(session_id) \notin DOMAIN store
    /\ returned' = Outcome(session_id, index, Nothing, 404, "Session not found",
                           {}, FALSE, NoBody)
    /\ UNCHANGED <<store, temp_files, ncalls, pc, args, session, img_path>>

\* the image is written before the index is checked
EvaluateInvalidIndex_AfterImage(session_id, index) ==
    /\ returned = NoReturn
    /\ LoadPath(session_id) \in DOMAIN store
    /\ InvalidIndex(index, store[LoadPath(session_id)].questions)
    /\ ncalls < MaxCalls
    /\ ncalls' = ncalls + 1
    /\ temp_files' = temp_files \cup {TempFile(ncalls + 1, "img")}
    /\ returned' = Outcome(session_id, index, Nothing, 400, "Invalid question index",
                           {TempFile(ncalls + 1, "img")}, FALSE, NoBody)
    /\ UNCHANGED <<store, pc, args, session, img_path>>

\* lines 228-229
EvaluateInvalidIndex(session_id, index) ==
    /\ returned = NoReturn
    /\ LoadPath(session_id) \in DOMAIN store
    /\ InvalidIndex(index, store[LoadPath(session_id)].questions)
    /\ returned' = Outcome(session_id, index, Nothing, 400, "Invalid question index",
                           {}, FALSE, NoBody)
    /\ UNCHANGED <<store, temp_files, ncalls, pc, args, session, img_path>>

\* lines 224-234: the session is loaded, the index is in range, and the
\* coroutine suspends in image.read()
EvaluateLoad(r, session_id, index) ==
    /\ returned = NoReturn
    /\ pc[r] = "idle"
    /\ \A q \in Slots : pc[q] = "idle" => r <= q
    /\ ncalls < MaxCalls
    /\ LoadPath(session_id) \in DOMAIN store
    /\ ~InvalidIndex(index, store[LoadPath(session_id)].questions)
    /\ ncalls' = ncalls + 1
    /\ pc' = [pc EXCEPT ![r] = "read_image"]
    /\ args' = [args EXCEPT ![r] = [session_id |-> session_id, index |-> index,
                                    call |-> ncalls + 1]]
    /\ session' = [session EXCEPT ![r] = Some(store[LoadPath(session_id)])]
    /\ returned' = NoReturn
    /\ UNCHANGED <<store, temp_files, img_path>>

\* lines 234-240: the image is written to its temporary file and the
\* coroutine suspends in audio.read()
EvaluateSaveImage(r) ==
    /\ returned = NoReturn
    /\ pc[r] = "read_image"
    /\ img_path' = [img_path EXCEPT ![r] = Some(TempFile(args[r].call, "img"))]
    /\ temp_files' = temp_files \cup {TempFile(args[r].call, "img")}
    /\ pc' = [pc EXCEPT ![r] = "read_audio"]
    /\ returned' = NoReturn
    /\ UNCHANGED <<store, ncalls, args, session>>

\* lines 242-246: the audio is rejected; the raise is outside the try
EvaluateInvalidAudio(r, len) ==
    /\ returned = NoReturn
    /\ pc[r] = "read_audio"
    /\ InvalidAudio(len)
    /\ returned' = Outcome(args[r].session_id, args[r].index, Some(len), 400,
                           "Empty or invalid audio file received",
                           Range(img_path[r]), FALSE, NoBody)
    /\ Finish(r)
    /\ UNCHANGED <<store, temp_files, ncalls>>

\* the finally block (lines 374-381): both paths are removed if they exist
Cleanup(files, paths) == files \ paths

\* the session dict with a Result appended under way when the evaluator failed
EvaluateRaise_SavesPartial(r, len, kind) ==
    /\ returned = NoReturn
    /\ pc[r] = "read_audio"
    /\ ~InvalidAudio(len)
    /\ LET audio == save_uploaded_audio_as_wav(kind, args[r].call)
           sess == session[r][1]
           partial == [question |-> sess.questions[args[r].index + 1].q,
                       question_index |-> args[r].index]
       IN /\ temp_files' = (temp_files \cup audio.created)
                              \ (Range(img_path[r]) \cup {audio.path})
          /\ store' = (args[r].session_id :>
                          [sess EXCEPT !.scores = Append(@, partial)]) @@ store
          /\ returned' = Outcome(args[r].session_id, args[r].index, Some(len), 500,
                                 "Internal Server Error",
                                 Range(img_path[r]) \cup audio.created, TRUE, NoBody)
    /\ Finish(r)
    /\ UNCHANGED ncalls

\* lines 248-264 and 374-381: the evaluator (or the building of the Result
\* from its output) raises
EvaluateRaise(r, len, kind) ==
    /\ returned = NoReturn
    /\ pc[r] = "read_audio"
    /\ ~InvalidAudio(len)
    /\ LET audio == save_uploaded_audio_as_wav(kind, args[r].call)
       IN /\ temp_files' = Cleanup(temp_files \cup audio.created,
                                   Range(img_path[r]) \cup {audio.path})
          /\ returned' = Outcome(args[r].session_id, args[r].index, Some(len), 500,
                                 "Internal Server Error",
                                 Range(img_path[r]) \cup audio.created, TRUE, NoBody)
    /\ Finish(r)
    /\ UNCHANGED <<store, ncalls>>

\* the session dict after lines 289-350
Updated(sess, index, result, dominant_emotion) ==
    LET appended == [sess EXCEPT !.scores = Append(@, result)]
    IN IF is_finished(index, sess.questions)
       THEN [appended EXCEPT !.final_result =
                Some(final_summary(appended.scores, sess.questions, dominant_emotion))]
       ELSE appended

\* the response body with the index itself as progress.current
Response_CurrentIsIndex(sess, index, result) ==
    IF is_finished(index, sess.questions)
    THEN [finished |-> TRUE, current_score |-> Some(result),
          final_result |-> sess.final_result,
          all_scores |-> sess.scores, progress |-> Nothing]
    ELSE [finished |-> FALSE, current_score |-> Some(result),
          final_result |-> Nothing, all_scores |-> <<>>,
          progress |-> Some([current |-> index,
                             total |-> Len(sess.questions),
                             percentage |-> RoundDiv(index * 100 * 10,
                                                     Len(sess.questions))])]

\* the response body (lines 353-372)
Response(sess, index, result) ==
    IF is_finished(index, sess.questions)
    THEN [finished |-> TRUE, current_score |-> Some(result),
          final_result |-> sess.final_result,
          all_scores |-> sess.scores, progress |-> Nothing]
    ELSE [finished |-> FALSE, current_score |-> Some(result),
          final_result |-> Nothing, all_scores |-> <<>>,
          progress |-> Some([current |-> index + 1,
                             total |-> Len(sess.questions),
                             percentage |-> RoundDiv((index + 1) * 100 * 10,
                                                     Len(sess.questions))])]

\* lines 248-381: the evaluator returns, the Result is appended, the summary
\* is computed on the last index, the session is saved, the files removed
EvaluateRecord(r, len, kind, eval_res) ==
    /\ returned = NoReturn
    /\ pc[r] = "read_audio"
    /\ ~InvalidAudio(len)
    /\ LET audio == save_uploaded_audio_as_wav(kind, args[r].call)
           sess == session[r][1]
           index == args[r].index
           q_data == sess.questions[index + 1]
           result == build_result(q_data, index, eval_res)
           emotions == [i \in 1..Len(sess.scores) + 1 |->
                           Append(sess.scores, result)[i].emotion]
       IN \E dominant_emotion \in DominantCandidates(emotions) :
            LET saved == Updated(sess, index, result, dominant_emotion)
            IN /\ store' = (SavePath(args[r].session_id) :> saved) @@ store
               /\ temp_files' = Cleanup(temp_files \cup audio.created,
                                        Range(img_path[r]) \cup {audio.path})
               /\ returned' = Outcome(args[r].session_id, args[r].index, Some(len), 200,
                                      "OK",
                                      Range(img_path[r]) \cup audio.created, TRUE,
                                      Response(saved, index, result))
    /\ Finish(r)
    /\ UNCHANGED ncalls

----------------------------------------------------------------------------
(* get_session: lines 387-400 *)

\* the question is returned as stored
WithoutModelAnswer_Keeps(q) == q

\* {k: v for k, v in q.items() if k != "model_answer"}
WithoutModelAnswer(q) == [k \in DOMAIN q \ {"model_answer"} |-> q[k]]

GetSession(session_id) ==
    /\ returned = NoReturn
    /\ returned' =
         IF LoadPath(session_id) \notin DOMAIN store
         THEN [op |-> "get", session_id |-> session_id, status |-> 404,
               detail |-> "Session not found"]
         ELSE LET sess == store[LoadPath(session_id)]
              IN [op |-> "get", session_id |-> session_id, status |-> 200,
                  detail |-> "OK",
                  body |-> [sess EXCEPT !.questions =
                              [i \in 1..Len(sess.questions) |->
                                  WithoutModelAnswer(sess.questions[i])]]]
    /\ UNCHANGED <<store, temp_files, ncalls, pc, args, session, img_path>>

----------------------------------------------------------------------------
(* The framework sends the client what the handler returned or raised; the *)
(* next handler step is taken after that.                                  *)

Respond ==
    /\ returned # NoReturn
    /\ returned' = NoReturn
    /\ UNCHANGED <<store, temp_files, ncalls, pc, args, session, img_path>>

----------------------------------------------------------------------------
(* The service *)

\* Inputs of the service specification: one domain (spelled two ways), the
\* levels that select two, one and no question, the ids the service issues,
\* two evaluator outputs either side of a grade band, every kind of audio.
Domains == {KeyBackend, <<"B", "a", "c", "k", "-", "E", "n", "d">>}

Levels == {"all", "easy", "hard"}

SessionIds == {SessionId(u, FALSE) : u \in 1..MaxSessions}

MaxIndex == 2

Indices == (0 - 1)..MaxIndex

Outputs == {e \in EvalOutputs : e.overall_marks >= 8999}

Audios == AudioKinds

Init ==
    /\ store = <<>>
    /\ temp_files = {}
    /\ ncalls = 0
    /\ pc = [r \in Slots |-> "idle"]
    /\ args = [r \in Slots |-> Idle]
    /\ session = [r \in Slots |-> Nothing]
    /\ img_path = [r \in Slots |-> Nothing]
    /\ returned = NoReturn

Next ==
    \/ \E d \in Domains, l \in Levels : Start(d, l)
    \/ \E s \in SessionIds, i \in Indices : EvaluateNotFound(s, i)
    \/ \E s \in SessionIds, i \in Indices : EvaluateInvalidIndex(s, i)
    \/ \E r \in Slots, s \in SessionIds, i \in Indices : EvaluateLoad(r, s, i)
    \/ \E r \in Slots : EvaluateSaveImage(r)
    \/ \E r \in Slots, len \in AudioLens : EvaluateInvalidAudio(r, len)
    \/ \E r \in Slots, len \in AudioLens, k \in Audios : EvaluateRaise(r, len, k)
    \/ \E r \in Slots, len \in AudioLens, k \in Audios, e \in Outputs :
         EvaluateRecord(r, len, k, e)
    \/ \E s \in SessionIds : GetSession(s)
    \/ Respond

Spec == Init /\ [][Next]_vars

----------------------------------------------------------------------------
(* The service seen through start and get_session: every spelling of the   *)
(* domain and every level, ids with and without surrounding whitespace on  *)
(* get_session, and one evaluator output.                                   *)

StartDomains ==
    { KeyBackend,
      <<"B", "a", "c", "k", "-", "E", "n", "d">>,
      <<"M", " ", "L">>,
      <<"q", "a">> }

StartLevels == {"all", "easy", "medium", "hard", "expert", ""}

ClientIds == {SessionId(u, p) : u \in 1..MaxSessions, p \in BOOLEAN}

OneOutput == {e \in EvalOutputs : e.overall_marks = 5000}

NextApi ==
    \/ \E d \in StartDomains, l \in StartLevels : Start(d, l)
    \/ \E r \in Slots, s \in SessionIds, i \in Indices : EvaluateLoad(r, s, i)
    \/ \E r \in Slots : EvaluateSaveImage(r)
    \/ \E r \in Slots, e \in OneOutput :
         EvaluateRecord(r, MIN_AUDIO_BYTES, "decodable", e)
    \/ \E s \in ClientIds : GetSession(s)
    \/ Respond

SpecApi == Init /\ [][NextApi]_vars

----------------------------------------------------------------------------
(* The service with evaluator marks on both sides of every grade band,     *)
(* one call at a time; the evaluator returns no skill_scores here.         *)

GradeMarks ==
    {0, 3999, 4000, 4999, 5000, 5999, 6000, 6999, 7000, 7999, 8000, 8999,
     9000, 10000}

GradeOutputs ==
    {[overall_marks |-> m, emotion_detected |-> "neutral", skill_scores |-> <<>>] :
        m \in GradeMarks}

NextGrade ==
    \/ \E l \in {"all", "easy"} : Start(KeyBackend, l)
    \/ \E s \in SessionIds, i \in Indices : EvaluateLoad(1, s, i)
    \/ \E r \in Slots : EvaluateSaveImage(r)
    \/ \E r \in Slots, e \in GradeOutputs :
         EvaluateRecord(r, MIN_AUDIO_BYTES, "wav", e)
    \/ Respond

SpecGrade == Init /\ [][NextGrade]_vars

----------------------------------------------------------------------------
(* The audio normalizer on the bytes of an upload: lines 47-120.  Bytes    *)
(* are numbers 0..255, strings are sequences of characters.                *)

\* the magic numbers of lines 58 and 92-102
RIFF == <<82, 73, 70, 70>>

WAVE == <<87, 65, 86, 69>>

EBML == <<26, 69, 223, 163>>

OGGS == <<79, 103, 103, 83>>

FLAC == <<102, 76, 97, 67>>

ID3 == <<73, 68, 51>>

MPEG_SYNC == <<255, 251>>

FTYP == <<102, 116, 121, 112>>

\* the slice s[i:j] of a bytes or str value, 0 <= i <= j
Slice(s, i, j) ==
    IF i >= Len(s) THEN <<>>
    ELSE SubSeq(s, i + 1, IF j < Len(s) THEN j ELSE Len(s))

\* key in content_type
Contains(str, key) ==
    \E i \in 0..(Len(str) - Len(key)) : Slice(str, i, i + Len(key)) = key

\* lines 105-110, in the order of the dict
ct_map ==
    << <<<<"a", "u", "d", "i", "o", "/", "w", "e", "b", "m">>, "webm">>,
       <<<<"v", "i", "d", "e", "o", "/", "w", "e", "b", "m">>, "webm">>,
       <<<<"a", "u", "d", "i", "o", "/", "o", "g", "g">>, "ogg">>,
       <<<<"a", "u", "d", "i", "o", "/", "m", "p", "4">>, "mp4">>,
       <<<<"a", "u", "d", "i", "o", "/", "m", "p", "e", "g">>, "mp3">>,
       <<<<"a", "u", "d", "i", "o", "/", "w", "a", "v">>, "wav">>,
       <<<<"a", "u", "d", "i", "o", "/", "x", "-", "w", "a", "v">>, "wav">>,
       <<<<"a", "u", "d", "i", "o", "/", "f", "l", "a", "c">>, "flac">> >>

\* lines 116-119
ext_map ==
    << <<<<"w", "e", "b", "m">>, "webm">>,
       <<<<"o", "g", "g">>, "ogg">>,
       <<<<"m", "p", "4">>, "mp4">>,
       <<<<"m", "4", "a">>, "mp4">>,
       <<<<"m", "p", "3">>, "mp3">>,
       <<<<"w", "a", "v">>, "wav">>,
       <<<<"f", "l", "a", "c">>, "flac">> >>

\* line 91: the sniff is made on 12 bytes or more
SniffMinLen == 12

\* lines 91-102: the format the first bytes name, if any
Sniff(audio_bytes) ==
    IF Len(audio_bytes) >= SniffMinLen
    THEN IF Slice(audio_bytes, 0, 4) = EBML THEN Some("webm")
         ELSE IF Slice(audio_bytes, 0, 4) = OGGS THEN Some("ogg")
         ELSE IF Slice(audio_bytes, 0, 4) = FLAC THEN Some("flac")
         ELSE IF Slice(audio_bytes, 0, 3) = ID3
                   \/ Slice(audio_bytes, 0, 2) = MPEG_SYNC THEN Some("mp3")
         ELSE IF Slice(audio_bytes, 4, 8) = FTYP THEN Some("mp4")
         ELSE IF Slice(audio_bytes, 0, 4) = RIFF THEN Some("wav")
         ELSE Nothing
    ELSE Nothing

\* lines 111-113: the first key of ct_map found in the content type
ByContentType(content_type) ==
    LET hits == {i \in 1..Len(ct_map) : Contains(content_type, ct_map[i][1])}
    IN IF hits = {} THEN Nothing
       ELSE Some(ct_map[CHOOSE i \in hits : \A j \in hits : i <= j][2])

\* filename.rsplit(".", 1)[-1]: what follows the last dot
RECURSIVE AfterLastDot(_)
AfterLastDot(filename) ==
    IF "." \in Range(Tail(filename)) THEN AfterLastDot(Tail(filename))
    ELSE Tail(filename)

\* line 115
Ext(filename) ==
    IF "." \in Range(filename)
    THEN LET dot == CHOOSE i \in 1..Len(filename) : filename[i] = "."
             rest == AfterLastDot(SubSeq(filename, dot, Len(filename)))
         IN [i \in 1..Len(rest) |-> Lower(rest[i])]
    ELSE <<>>

\* line 120: ext_map.get(ext, "webm")
ByExtension(filename) ==
    IF HasKey(ext_map, Ext(filename)) THEN Lookup(ext_map, Ext(filename))
    ELSE "webm"

\* lines 88-120
detect_upload_format(content_type, filename, audio_bytes) ==
    IF Sniff(audio_bytes) # Nothing THEN Sniff(audio_bytes)[1]
    ELSE IF ByContentType(content_type) # Nothing THEN ByContentType(content_type)[1]
    ELSE ByExtension(filename)

\* the header test at offset 4 instead of 8
IsWav_WaveAtFour(audio_bytes) ==
    Slice(audio_bytes, 0, 4) = RIFF /\ Slice(audio_bytes, 4, 8) = WAVE

\* line 58
IsWav(audio_bytes) ==
    Slice(audio_bytes, 0, 4) = RIFF /\ Slice(audio_bytes, 8, 12) = WAVE

\* what a temporary file holds: the uploaded bytes, the converter's PCM
\* output, or the part of it written when the export failed
Raw(audio_bytes) == [holds |-> "upload", bytes |-> audio_bytes]

Pcm == [holds |-> "pcm wav"]

PartialPcm == [holds |-> "partial pcm wav"]

\* what pydub does with bytes that are not already WAV: it returns, decoding
\* fails (line 67), or export fails with its output file open (line 75)
Decodes == {"ok", "decode_raises", "export_raises"}

\* lines 47-85: the path returned, the files written with their extension
\* and content, and whether the decoder was called
normalize(content_type, filename, audio_bytes, decode, call) ==
    LET source_format == detect_upload_format(content_type, filename, audio_bytes)
        wav_path == TempFile(call, "wav")
        fallback_path == TempFile(call, "fallback")
        wav(content) == wav_path :> [ext |-> "wav", content |-> content]
        fallback == fallback_path :> [ext |-> source_format,
                                      content |-> Raw(audio_bytes)]
    IN IF IsWav(audio_bytes)
       THEN [source_format |-> source_format, path |-> wav_path,
             written |-> wav(Raw(audio_bytes)), decoded |-> FALSE]
       ELSE CASE decode = "ok" ->
                   [source_format |-> source_format, path |-> wav_path,
                    written |-> wav(Pcm), decoded |-> TRUE]
              [] decode = "decode_raises" ->
                   [source_format |-> source_format, path |-> fallback_path,
                    written |-> fallback, decoded |-> TRUE]
              [] decode = "export_raises" ->
                   [source_format |-> source_format, path |-> fallback_path,
                    written |-> wav(PartialPcm) @@ fallback, decoded |-> TRUE]

\* the calls of the normalizer on its own
MaxNormalize == 1

\* one call of save_uploaded_audio_as_wav on an upload
Normalize(content_type, filename, audio_bytes, decode) ==
    /\ returned = NoReturn
    /\ ncalls < MaxNormalize
    /\ ncalls' = ncalls + 1
    /\ LET res == normalize(content_type, filename, audio_bytes, decode, ncalls + 1)
       IN /\ temp_files' = temp_files \cup DOMAIN res.written
          /\ returned' = [op |-> "normalize", content_type |-> content_type,
                          filename |-> filename, audio_bytes |-> audio_bytes,
                          decode |-> decode, before |-> temp_files,
                          source_format |-> res.source_format, path |-> res.path,
                          written |-> res.written, decoded |-> res.decoded]
    /\ UNCHANGED <<store, pc, args, session, img_path>>

\* Uploads: blobs made of a 4-byte head, bytes 4-8, bytes 8-12 and one more
\* byte, cut at several lengths; declared content types; filenames.
Heads == {RIFF, OGGS, FLAC, EBML, ID3 \o <<4>>, MPEG_SYNC \o <<0, 0>>,
          <<82, 73, 70, 88>>, <<0, 0, 0, 24>>}

Mids == {FTYP, <<36, 0, 0, 0>>}

Thirds == {WAVE, <<65, 86, 73, 32>>}

CutLens == {0, 3, SniffMinLen - 1, SniffMinLen, SniffMinLen + 1}

Blobs == {Slice(h \o m \o t \o <<1>>, 0, n) :
             h \in Heads, m \in Mids, t \in Thirds, n \in CutLens}

ContentTypes ==
    { <<>>,
      <<"a", "u", "d", "i", "o", "/", "w", "e", "b", "m", ";", "c", "o", "d", "e", "c", "s", "=", "o", "p", "u", "s">>,
      <<"a", "u", "d", "i", "o", "/", "o", "g", "g">>,
      <<"a", "u", "d", "i", "o", "/", "x", "-", "w", "a", "v">>,
      <<"a", "u", "d", "i", "o", "/", "m", "p", "e", "g">>,
      <<"a", "u", "d", "i", "o", "/", "o", "g", "g", ",", "v", "i", "d", "e", "o", "/", "w", "e", "b", "m">>,
      <<"A", "u", "d", "i", "o", "/", "O", "g", "g">>,
      <<"t", "e", "x", "t", "/", "p", "l", "a", "i", "n">> }

Filenames ==
    { <<>>,
      <<"a", ".", "w", "a", "v">>,
      <<"a", ".", "b", ".", "m", "4", "a">>,
      <<"v", ".", "M", "p", "3">>,
      <<"f", "l", "a", "c">>,
      <<"a", ".">>,
      <<"a", ".", "t", "x", "t">> }

NextAudio ==
    \/ \E c \in ContentTypes, f \in Filenames, b \in Blobs, d \in Decodes :
         Normalize(c, f, b, d)
    \/ Respond

SpecAudio == Init /\ [][NextAudio]_vars

----------------------------------------------------------------------------
(* The service called with the ids a client may send: the id start issued,  *)
(* as issued or with surrounding whitespace; one call at a time.            *)

NextIds ==
    \/ \E l \in {"all", "easy"} : Start(KeyBackend, l)
    \/ \E s \in ClientIds, i \in Indices : EvaluateNotFound(s, i)
    \/ \E s \in ClientIds, i \in Indices : EvaluateInvalidIndex(s, i)
    \/ \E s \in ClientIds, i \in Indices : EvaluateLoad(1, s, i)
    \/ \E r \in Slots : EvaluateSaveImage(r)
    \/ \E r \in Slots, e \in OneOutput :
         EvaluateRecord(r, MIN_AUDIO_BYTES, "wav", e)
    \/ \E s \in ClientIds : GetSession(s)
    \/ Respond

SpecIds == Init /\ [][NextIds]_vars

----------------------------------------------------------------------------
(* Properties *)

Sessions == DOMAIN store

\* an evaluate call has just returned or raised
Evaluated == returned.op = "evaluate"

IsPrefix(s, t) == Len(s) <= Len(t) /\ \A i \in 1..Len(s) : s[i] = t[i]

\* C1: in every persisted session the number of recorded Results is at most
\* the number of questions.
C1_ResultsWithinQuestions ==
    \A k \in Sessions : Len(store[k].scores) <= Len(store[k].questions)

\* C2: a persisted session has a final summary exactly when it has as many
\* Results as questions and the Result submitted last is for the last
\* question; and a session with a final summary has a Result for every
\* question.
C2_FinalIffComplete ==
    \A k \in Sessions :
        LET sess == store[k]
            n == Len(sess.questions)
            m == Len(sess.scores)
        IN /\ sess.final_result # Nothing
                <=> (m = n /\ m > 0 /\ sess.scores[m].question_index = n - 1)
           /\ sess.final_result # Nothing
                => \A i \in 0..(n - 1) :
                      \E j \in 1..m : sess.scores[j].question_index = i

\* C3: once a session's final summary is stored, no step changes the
\* session's results or its final summary.
C3_FinishedIsFinal ==
    [][\A k \in Sessions :
          store[k].final_result # Nothing
             => /\ store'[k].scores = store[k].scores
                /\ store'[k].final_result = store[k].final_result]_vars

\* C4: no update of the results list is lost: when an evaluate call succeeds,
\* every Result persisted before it for another index is still persisted
\* after it.
C4_NoLostUpdate ==
    [][(returned'.op = "evaluate" /\ returned'.status = 200)
          => \A k \in Sessions : \A i \in 1..Len(store[k].scores) :
                store[k].scores[i].question_index # returned'.index
                   => store[k].scores[i] \in Range(store'[k].scores)]_vars

\* C5: when an evaluate call has returned or raised, none of the temporary
\* files it created exists.
C5_NoTempFileLeft ==
    Evaluated => returned.created \cap temp_files = {}

AudioRejected ==
    Evaluated /\ returned.detail = "Empty or invalid audio file received"

EvaluatorFailed == Evaluated /\ returned.status = 500

\* C6: an evaluate call whose audio is empty or shorter than 100 bytes fails
\* with status 400 (invalid audio), a call whose evaluator raises fails with
\* an error status, and neither failure changes any persisted session.
C6_FailureRecordsNothing ==
    [][/\ (Evaluated /\ returned.audio_len # Nothing
             /\ returned.audio_len[1] < 100)'
            => (returned.status = 400 /\ AudioRejected)'
       /\ (AudioRejected \/ EvaluatorFailed)'
            => (/\ store' = store
                /\ returned'.status >= 400
                /\ returned'.body.current_score = Nothing
                /\ returned'.body.final_result = Nothing)]_vars

\* C6 witness: a call is rejected for its 99-byte audio while the session
\* already holds a Result.
C6_Witness ==
    /\ AudioRejected
    /\ returned.audio_len = Some(99)
    /\ \E k \in Sessions : store[k].scores # <<>>

\* C7: an evaluate call with an unknown session id fails with 404 (not
\* found), one with an index outside [0, len(questions)) fails with 400
\* (invalid index), and such a call creates no temporary file, does not
\* invoke the evaluator and leaves the persisted sessions unchanged.
C7_ValidationFailsFirst ==
    [][Evaluated' =>
         LET sid == returned'.session_id
             index == returned'.index
             NotFound == returned'.status = 404
                            /\ returned'.detail = "Session not found"
             BadIndex == returned'.status = 400
                            /\ returned'.detail = "Invalid question index"
         IN /\ Strip(sid) \notin Sessions => NotFound
            /\ (Strip(sid) \in Sessions
                  /\ (index < 0 \/ index > Len(store[Strip(sid)].questions) - 1))
                 => BadIndex
            /\ (NotFound \/ BadIndex)
                 => /\ returned'.created = {}
                    /\ ~returned'.evaluated
                    /\ temp_files' = temp_files
                    /\ store' = store]_vars

\* C7 witness: an index equal to the number of questions has just been
\* rejected for a session that has questions.
C7_Witness ==
    /\ Evaluated
    /\ returned.detail = "Invalid question index"
    /\ Strip(returned.session_id) \in Sessions
    /\ returned.index = Len(store[Strip(returned.session_id)].questions)
    /\ returned.index > 0

\* C8: a successful evaluate call for the last index returns finished with a
\* final result whose percentage is the sum of the marks of the session's
\* Results over n*10, times 100, rounded to two decimals, and whose average
\* score is the sum over n rounded to two decimals; a successful call for a
\* smaller index returns unfinished, with no final result.
C8_LastIndexFinishes ==
    (Evaluated /\ returned.status = 200) =>
        LET sess == store[returned.session_id]
            n == Len(sess.questions)
            sum == SumSeq([i \in 1..Len(sess.scores) |-> sess.scores[i].overall_marks])
            body == returned.body
        IN IF returned.index = n - 1
           THEN /\ body.finished
                /\ body.final_result # Nothing
                /\ body.final_result[1].percentage = RoundDiv(sum, n)
                /\ body.final_result[1].average_score = RoundDiv(sum, 10 * n)
           ELSE /\ ~body.finished
                /\ body.final_result = Nothing

\* C8 witness: the last index of a two-question session is answered after an
\* earlier call, and the percentage is a rounded one (89.995 gives 90.0).
C8_Witness ==
    /\ Evaluated /\ returned.status = 200 /\ returned.body.finished
    /\ Len(store[returned.session_id].questions) = 2
    /\ Len(store[returned.session_id].scores) = 2
    /\ total_marks(store[returned.session_id].scores) = 17999
    /\ returned.body.final_result[1].percentage = 9000

ViewFields == {"q", "category", "difficulty", "weight"}

\* start's response counts the questions it returns, and each returned
\* question is the stored one reduced to the four view fields
StartViewSafe ==
    returned.op = "start" =>
        LET stored == store[returned.session_id].questions
        IN /\ returned.total_questions = Len(returned.questions)
           /\ Len(returned.questions) = Len(stored)
           /\ \A i \in 1..Len(stored) :
                 /\ DOMAIN returned.questions[i] = ViewFields
                 /\ returned.questions[i].q = stored[i].q

\* get_session's response is the stored session, each question without its
\* model_answer and otherwise as stored
GetViewSafe ==
    (returned.op = "get" /\ returned.status = 200) =>
        LET stored == store[Strip(returned.session_id)]
            body == returned.body
        IN /\ DOMAIN body = DOMAIN stored
           /\ \A f \in DOMAIN stored \ {"questions"} : body[f] = stored[f]
           /\ Len(body.questions) = Len(stored.questions)
           /\ \A i \in 1..Len(stored.questions) :
                 /\ DOMAIN body.questions[i] = DOMAIN stored.questions[i] \ {"model_answer"}
                 /\ \A f \in DOMAIN body.questions[i] :
                       body.questions[i][f] = stored.questions[i][f]

\* C9: start returns total_questions equal to the number of questions it
\* returns, each with only prompt, category, difficulty and weight;
\* get_session returns the persisted session with model_answer removed from
\* every question, and does not change what is persisted.
C9_ModelAnswerNotExposed ==
    /\ [](StartViewSafe /\ GetViewSafe)
    /\ [][returned'.op = "get" => store' = store]_vars

\* C9 witness: get_session has answered for a session that holds a Result
\* and a question stored with its model answer.
C9_Witness ==
    /\ returned.op = "get" /\ returned.status = 200
    /\ store[Strip(returned.session_id)].scores # <<>>
    /\ \E i \in 1..Len(store[Strip(returned.session_id)].questions) :
          "model_answer" \in DOMAIN store[Strip(returned.session_id)].questions[i]

\* the bands as intervals [lo, hi) of the percentage, in hundredths
GradeBands ==
    { [g |-> "A+", lo |-> 9000, hi |-> 10000000],
      [g |-> "A", lo |-> 8000, hi |-> 9000],
      [g |-> "B+", lo |-> 7000, hi |-> 8000],
      [g |-> "B", lo |-> 6000, hi |-> 7000],
      [g |-> "C", lo |-> 5000, hi |-> 6000],
      [g |-> "D", lo |-> 4000, hi |-> 5000],
      [g |-> "F", lo |-> 0 - 10000000, hi |-> 4000] }

GradedByBand(summary) ==
    /\ \E b \in GradeBands :
          /\ b.lo <= summary.percentage /\ summary.percentage < b.hi
          /\ summary.grade = b.g
    /\ Cardinality({b \in GradeBands :
                       b.lo <= summary.percentage /\ summary.percentage < b.hi}) = 1
    /\ summary.percentage = 9000 => summary.grade = "A+"
    /\ summary.percentage = 8999 => summary.grade = "A"
    /\ summary.percentage = 5000 => summary.grade = "C"
    /\ summary.percentage = 4999 => summary.grade = "D"

\* C10: the grade of every final summary, persisted or returned, is the one
\* band that holds its percentage, lower bound included: 90 and up A+, 80 A,
\* 70 B+, 60 B, 50 C, 40 D, below F (90.0 gives A+, 89.99 A, 50.0 C,
\* 49.99 D).
C10_GradeBands ==
    /\ \A k \in Sessions :
          store[k].final_result # Nothing => GradedByBand(store[k].final_result[1])
    /\ (Evaluated /\ returned.body.final_result # Nothing)
          => GradedByBand(returned.body.final_result[1])

\* C10 witness: a final summary of 49.99 percent, averaged over two Results,
\* is graded D.
C10_Witness ==
    \E k \in Sessions :
        /\ store[k].final_result # Nothing
        /\ Len(store[k].scores) = 2
        /\ store[k].final_result[1].percentage = 4999
        /\ store[k].final_result[1].grade = "D"

\* the final summaries there are: the persisted ones and the returned one
FinalSummaries ==
    {store[k].final_result[1] : k \in {j \in Sessions : store[j].final_result # Nothing}}
      \cup (IF Evaluated /\ returned.body.final_result # Nothing
            THEN {returned.body.final_result[1]} ELSE {})

\* the sum of one skill over the Results of a session, in hundredths
SkillSum(sess, skill) ==
    SumSeq([i \in 1..Len(sess.scores) |-> Get(sess.scores[i].skill_scores, skill, 0)])

\* C11 as stated: in every final summary a skill is a strength exactly when
\* its average (the sum of its scores over the number of questions) is at
\* least 65 and a weakness exactly when it is below 50; so an average of
\* 64.99 is neither.
C11_ThresholdsOnAverage ==
    \A k \in Sessions :
        store[k].final_result # Nothing =>
            LET sess == store[k]
                n == Len(sess.questions)
                summary == sess.final_result[1]
            IN \A skill \in Range(Skills) :
                  /\ skill \in Range(summary.strengths)
                        <=> SkillSum(sess, skill) >= STRENGTH_MIN * SkillScale * n
                  /\ skill \in Range(summary.weaknesses)
                        <=> SkillSum(sess, skill) < WEAKNESS_MAX * SkillScale * n

\* C11 amended: in every final summary a skill is a strength exactly when
\* its average as reported, rounded to one decimal, is at least 65.0 and a
\* weakness exactly when that is below 50.0; the lists are disjoint and
\* without repetition, a reported 65.0 is a strength only, and a reported
\* average from 50.0 to 64.9 is in neither list.
C11_ThresholdsOnRounded ==
    \A summary \in FinalSummaries :
        /\ \A skill \in Range(Skills) :
              LET avg == summary.skill_averages[skill]
              IN /\ skill \in Range(summary.strengths) <=> avg >= 650
                 /\ skill \in Range(summary.weaknesses) <=> avg < 500
                 /\ avg = 650 => /\ skill \in Range(summary.strengths)
                                 /\ skill \notin Range(summary.weaknesses)
                 /\ (500 <= avg /\ avg <= 649)
                       => skill \notin Range(summary.strengths)
                                          \cup Range(summary.weaknesses)
        /\ Range(summary.strengths) \cap Range(summary.weaknesses) = {}
        /\ Len(summary.strengths) = Cardinality(Range(summary.strengths))
        /\ Len(summary.weaknesses) = Cardinality(Range(summary.weaknesses))

\* C11 witness: one Result with scores 64.99, 49.99, 50.0 and a missing
\* skill is summarised: 64.99 is reported as 65.0 and is a strength, 49.99
\* is reported as 50.0 and is in neither list, the missing skill is a
\* weakness.
C11_Witness ==
    \E k \in Sessions :
        /\ store[k].final_result # Nothing
        /\ Len(store[k].scores) = 1
        /\ SkillSum(store[k], "technical") = 6499
        /\ SkillSum(store[k], "communication") = 4999
        /\ store[k].final_result[1].skill_averages["technical"] = 650
        /\ store[k].final_result[1].strengths = <<"technical">>
        /\ store[k].final_result[1].weaknesses = <<"confidence">>

\* the normalizer has just returned
Normalized == returned.op = "normalize"

\* the bytes have RIFF at offset 0 and WAVE at offset 8
RiffWave(b) ==
    /\ Len(b) >= 12
    /\ <<b[1], b[2], b[3], b[4]>> = <<82, 73, 70, 70>>
    /\ <<b[9], b[10], b[11], b[12]>> = <<87, 65, 86, 69>>

\* C12: when the normalizer is given bytes with RIFF at offset 0 and WAVE at
\* offset 8, whatever the content type and filename, the file it returns
\* exists and holds exactly the given bytes, and the decoder was not called.
C12_WavPassedThrough ==
    (Normalized /\ RiffWave(returned.audio_bytes)) =>
        /\ ~returned.decoded
        /\ returned.path \in temp_files
        /\ returned.path \in DOMAIN returned.written
        /\ returned.written[returned.path].content
              = [holds |-> "upload", bytes |-> returned.audio_bytes]
        /\ Len(returned.written[returned.path].content.bytes)
              = Len(returned.audio_bytes)

\* C12 witness: a 13-byte RIFF/WAVE blob declared audio/ogg and named v.Mp3,
\* for which the decoder would fail, has been passed through.
C12_Witness ==
    /\ Normalized /\ RiffWave(returned.audio_bytes)
    /\ Len(returned.audio_bytes) = 13
    /\ returned.content_type = <<"a", "u", "d", "i", "o", "/", "o", "g", "g">>
    /\ returned.filename = <<"v", ".", "M", "p", "3">>
    /\ returned.decode = "decode_raises"
    /\ returned.written[returned.path].content.bytes = returned.audio_bytes

\* C13: every call of the normalizer returns the path of an existing file
\* and leaves exactly one new temporary file, the returned one, on the
\* passthrough, converted and fallback branches, also when the conversion
\* fails after it began to write its output.
C13_OneFilePerCall ==
    Normalized =>
        /\ returned.path \in temp_files
        /\ temp_files \ returned.before = {returned.path}

\* the first n bytes of b are the magic m
StartsWith(b, m) == Len(b) >= Len(m) /\ \A i \in 1..Len(m) : b[i] = m[i]

\* the format the first 12 bytes name under the stated rules, first match
\* wins; wav needs RIFF at offset 0 together with WAVE at offset 8
StatedMagic(b) ==
    IF Len(b) < 12 THEN Nothing
    ELSE IF StartsWith(b, <<26, 69, 223, 163>>) THEN Some("webm")
    ELSE IF StartsWith(b, <<79, 103, 103, 83>>) THEN Some("ogg")
    ELSE IF StartsWith(b, <<102, 76, 97, 67>>) THEN Some("flac")
    ELSE IF StartsWith(b, <<73, 68, 51>>) \/ StartsWith(b, <<255, 251>>) THEN Some("mp3")
    ELSE IF <<b[5], b[6], b[7], b[8]>> = <<102, 116, 121, 112>> THEN Some("mp4")
    ELSE IF RiffWave(b) THEN Some("wav")
    ELSE Nothing

\* C17: the detected format is the one the magic bytes name (wav for RIFF at
\* offset 0 together with WAVE at offset 8); else the one of the first
\* content-type key the declared content type contains; else the one of the
\* filename extension; else webm.  Bytes with no matching magic are not
\* classified by their first bytes, and a matching magic overrides the
\* content type and the filename.
C17_DetectionPriority ==
    Normalized =>
        LET b == returned.audio_bytes
            hinted == IF ByContentType(returned.content_type) # Nothing
                      THEN ByContentType(returned.content_type)[1]
                      ELSE ByExtension(returned.filename)
        IN returned.source_format =
              IF StatedMagic(b) # Nothing THEN StatedMagic(b)[1] ELSE hinted

\* the Results are those of the indices 0, 1, ..., in this order
InIndexOrder(scores) == \A i \in 1..Len(scores) : scores[i].question_index = i - 1

\* C14: the Results of every persisted session are in increasing index order
\* from 0 (the k-th Result, counted from 0, has question_index k); a step
\* leaves the recorded Results in place, unchanged, and adds at most one; a
\* successful evaluate call adds exactly one.
C14_AppendInIndexOrder ==
    [][/\ \A k \in DOMAIN store' : InIndexOrder(store'[k].scores)
       /\ \A k \in Sessions :
             /\ IsPrefix(store[k].scores, store'[k].scores)
             /\ Len(store'[k].scores) <= Len(store[k].scores) + 1
       /\ (returned'.op = "evaluate" /\ returned'.status = 200)
             => Len(store'[Strip(returned'.session_id)].scores)
                   = Len(store[Strip(returned'.session_id)].scores) + 1]_vars

\* the label of maximal count that comes first in the sequence
FirstMode(emotions) ==
    emotions[CHOOSE i \in 1..Len(emotions) :
                /\ \A j \in 1..Len(emotions) :
                      Count(emotions, emotions[j]) <= Count(emotions, emotions[i])
                /\ \A j \in 1..(i - 1) :
                      Count(emotions, emotions[j]) < Count(emotions, emotions[i])]

\* C15: the dominant emotion of every final summary is the label with the
\* most occurrences among the session's Results, the first one met in the
\* sequence of Results when several labels have the most.  Stated for the
\* sessions that hold one Result per question, in index order.
C15_DominantIsFirstMode ==
    \A k \in Sessions :
        (/\ store[k].final_result # Nothing
         /\ Len(store[k].scores) = Len(store[k].questions)
         /\ InIndexOrder(store[k].scores)) =>
            LET emotions == [i \in 1..Len(store[k].scores) |-> store[k].scores[i].emotion]
            IN store[k].final_result[1].dominant_emotion = FirstMode(emotions)

\* every Result of the session has marks in [0, 10] and skill scores in
\* [0, 100]
ResultsOnScale(sess) ==
    \A i \in 1..Len(sess.scores) :
        /\ 0 <= sess.scores[i].overall_marks
        /\ sess.scores[i].overall_marks <= 10 * 1000
        /\ \A skill \in DOMAIN sess.scores[i].skill_scores :
              /\ 0 <= sess.scores[i].skill_scores[skill]
              /\ sess.scores[i].skill_scores[skill] <= 100 * 100

\* C16: when every Result of a session is on its scale, the session's final
\* summary has every skill average in [0, 100], its percentage in [0, 100]
\* and total_marks at most max_possible.
C16_AggregatesOnScale ==
    \A k \in Sessions :
        (store[k].final_result # Nothing /\ ResultsOnScale(store[k])) =>
            LET summary == store[k].final_result[1]
            IN /\ \A skill \in Range(Skills) :
                     /\ 0 <= summary.skill_averages[skill]
                     /\ summary.skill_averages[skill] <= 100 * 10
               /\ 0 <= summary.percentage
               /\ summary.percentage <= 100 * 100
               /\ summary.total_marks <= summary.max_possible * 100

\* the states of a session: no Result yet; some but not all; all, with the
\* final summary
Created(sess) == sess.scores = <<>> /\ sess.final_result = Nothing

InProgress(sess) ==
    /\ 0 < Len(sess.scores) /\ Len(sess.scores) < Len(sess.questions)
    /\ sess.final_result = Nothing

Finished(sess) ==
    Len(sess.scores) = Len(sess.questions) /\ sess.final_result # Nothing

\* C18: start leaves the session Created; when the indices 0, ..., i-1 of a
\* session of n questions have been recorded in order by successful calls
\* and the call for index i succeeds, then for i < n-1 it returns finished
\* false with progress.current = i+1 and the session is InProgress with the
\* Results 0..i, and for i = n-1 it returns finished true and the session is
\* Finished with exactly n Results, in order, and the final summary it
\* returned.
C18_InOrderRunCompletes ==
    [][/\ returned'.op = "start" => Created(store'[returned'.session_id])
       /\ (/\ returned'.op = "evaluate" /\ returned'.status = 200
           /\ Len(store[returned'.session_id].scores) = returned'.index
           /\ InIndexOrder(store[returned'.session_id].scores))
            => LET before == store[returned'.session_id]
                   after == store'[returned'.session_id]
                   n == Len(before.questions)
                   i == returned'.index
                   body == returned'.body
               IN /\ n > 0
                  /\ IF i = 0 THEN Created(before) ELSE InProgress(before)
                  /\ Len(after.scores) = i + 1 /\ InIndexOrder(after.scores)
                  /\ IF i < n - 1
                     THEN /\ body.finished = FALSE
                          /\ body.progress # Nothing
                          /\ body.progress[1].current = i + 1
                          /\ InProgress(after)
                     ELSE /\ body.finished = TRUE
                          /\ Finished(after)
                          /\ Len(after.scores) = n
                          /\ body.final_result = after.final_result]_vars

\* C18 witness: the second and last index of a two-question session has
\* been answered after the first, and the session is Finished with its two
\* Results in order.
C18_Witness ==
    /\ Evaluated /\ returned.status = 200 /\ returned.index = 1
    /\ returned.body.finished
    /\ LET sess == store[returned.session_id]
       IN /\ Len(sess.questions) = 2
          /\ Len(sess.scores) = 2
          /\ InIndexOrder(sess.scores)
          /\ Finished(sess)

\* C19: a successful evaluate call, whatever accepted spelling of the
\* session id it was given, leaves the set of persisted records as it was,
\* and the record that a get with the same id reads holds the new Result
\* after the Results it held before; the persisted records are always
\* the ones start created.
C19_WritesRecordItLoaded ==
    [][(returned'.op = "evaluate" /\ returned'.status = 200)
          => LET read == LoadPath(returned'.session_id)
             IN /\ DOMAIN store' = DOMAIN store
                /\ store'[read].scores
                      = Append(store[read].scores, returned'.body.current_score[1])
                /\ \A k \in DOMAIN store' : store'[k].session_id = k]_vars

\* C20: a call that has loaded its session, and so can reach the final
\* summary, has a session of at least one question and an index within it;
\* every stored or returned final summary is over at least one question; a
\* session without questions has no Result and no final summary, and every
\* evaluate call on it has failed with 400, invalid index.
C20_NoAggregationWithoutQuestions ==
    /\ \A r \in Slots :
          session[r] # Nothing
             => /\ Len(session[r][1].questions) >= 1
                /\ 0 <= args[r].index
                /\ args[r].index < Len(session[r][1].questions)
    /\ \A summary \in FinalSummaries :
          summary.total_questions >= 1 /\ summary.max_possible >= 10
    /\ \A k \in Sessions :
          store[k].questions = <<>>
             => store[k].scores = <<>> /\ store[k].final_result = Nothing
    /\ (Evaluated /\ Strip(returned.session_id) \in Sessions
          /\ store[Strip(returned.session_id)].questions = <<>>)
          => /\ returned.status = 400
             /\ returned.detail = "Invalid question index"
             /\ ~returned.evaluated

\* C20 witness: index 0 has just been refused for a session that start
\* created without questions.
C20_Witness ==
    /\ Evaluated /\ returned.index = 0
    /\ returned.detail = "Invalid question index"
    /\ Strip(returned.session_id) \in Sessions
    /\ store[Strip(returned.session_id)].questions = <<>>
    /\ store[Strip(returned.session_id)].final_result = Nothing

====
